---------------------------- MODULE Spec2Model ----------------------------
(***************************************************************************)
(* budoux-rs: the segmentation engine of src/src/lib.rs.                   *)
(*                                                                         *)
(* A Rust String is modelled as the sequence of its Unicode scalar values  *)
(* (UTF-8 is injective, so two Strings are equal exactly when these        *)
(* sequences are equal); a char is one scalar value.  One call of          *)
(* parse_with_threshold is a state machine over its local variables, kept  *)
(* in the record st, one action per straight-line piece of the function.   *)
(***************************************************************************)
EXTENDS Integers, Sequences, FiniteSets, TLC

VARIABLES
    model,            \* the &Model argument: feature key -> i32 weight
    input,            \* the &str argument, as its chars
    threshold,        \* the i32 argument
    overflow_checks,  \* build profile: TRUE = overflow checks on (debug)
    st                \* locals of parse_with_threshold, and where it stands

vars == <<model, input, threshold, overflow_checks, st>>

----------------------------------------------------------------------------
(* Bounds of the model.                                                    *)

MaxLen == 5

----------------------------------------------------------------------------
(* Constants of the program.                                               *)

DEFAULT_THRESHOLD == 1000

\* The range of i32, the type of a weight, of `score` and of `threshold`.
I32_MAX == 2147483647
I32_MIN == (-I32_MAX) - 1

\* ASCII codes of the letters used in family prefixes and decision tags.
Ascii == [U |-> 85, B |-> 66, T |-> 84, W |-> 87, P |-> 80, Q |-> 81, O |-> 79]

\* U+2594, the glyph that marks an out-of-range block
INVALID_FEATURE == <<9620>>

\* The block table of src/unicode_blocks.rs: a strictly ascending table of
\* block boundaries (its first entries).
UNICODE_BLOCKS == <<0, 128, 256, 384, 592>>

----------------------------------------------------------------------------
(* get_unicode_block_and_feature                                           *)

\* slice::binary_search: [ok |-> TRUE, idx |-> position of the match] or
\* [ok |-> FALSE, idx |-> insertion point], 0-based as in Rust.
RECURSIVE bsearch(_, _, _, _)
bsearch(table, c, lo, hi) ==
    IF lo >= hi THEN [ok |-> FALSE, idx |-> lo]
    ELSE LET mid == lo + ((hi - lo) \div 2) IN
         IF table[mid + 1] = c THEN [ok |-> TRUE, idx |-> mid]
         ELSE IF table[mid + 1] < c THEN bsearch(table, c, mid + 1, hi)
         ELSE bsearch(table, c, lo, mid)

binary_search(table, c) == bsearch(table, c, 0, Len(table))

\* The decimal digits of n >= 0, as characters.
RECURSIVE decimal(_)
decimal(n) == IF n < 10 THEN <<48 + n>> ELSE decimal(n \div 10) \o <<48 + (n % 10)>>

RECURSIVE zero_pad(_, _)
zero_pad(s, width) == IF Len(s) < width THEN zero_pad(<<48>> \o s, width) ELSE s

\* format!("{:>03}", pos)
format_03(pos) == zero_pad(decimal(pos), 3)

block_pos_exact_as_index(table, c) ==
    LET r == binary_search(table, c) IN r.idx

block_pos(table, c) ==
    LET r == binary_search(table, c) IN
    IF r.ok THEN r.idx + 1 ELSE r.idx

\* (w, b) for the char at `index` (0-based), or the sentinel pair.
get_unicode_block_and_feature(chars, index) ==
    IF Len(chars) <= index
    THEN <<(<<>>), INVALID_FEATURE>>
    ELSE LET v == chars[index + 1]
             c == v
             pos == block_pos(UNICODE_BLOCKS, c)
         IN  <<(<<v>>), format_03(pos)>>

----------------------------------------------------------------------------
(* key and get_feature                                                     *)

RECURSIVE push_all(_, _, _)
push_all(buf, params, n) ==
    IF n > Len(params) THEN buf ELSE push_all(buf \o params[n], params, n + 1)

key_noclear(buf, params) == push_all(buf, params, 1)

\* buf.clear(); for param in params { buf.push_str(param) }; buf
key(buf, params) == push_all(<<>>, params, 1)

\* The literal family prefix, e.g. Prefix("U", "W", 3) is "UW3:".
Prefix(a, b, n) == <<Ascii[a], Ascii[b], 48 + n, 58>>

\* The parameter lists of the 42 key(...) calls of get_feature, in order.
feature_params(w1, w2, w3, w4, w5, w6, b1, b2, b3, b4, b5, b6, p1, p2, p3) ==
    << <<Prefix("U","P",1), p1>>,
       <<Prefix("U","P",2), p2>>,
       <<Prefix("U","P",3), p3>>,
       <<Prefix("B","P",1), p1, p2>>,
       <<Prefix("B","P",2), p2, p3>>,
       <<Prefix("U","W",1), w1>>,
       <<Prefix("U","W",2), w2>>,
       <<Prefix("U","W",3), w3>>,
       <<Prefix("U","W",4), w4>>,
       <<Prefix("U","W",5), w5>>,
       <<Prefix("U","W",6), w6>>,
       <<Prefix("B","W",1), w2, w3>>,
       <<Prefix("B","W",2), w3, w4>>,
       <<Prefix("B","W",3), w4, w5>>,
       <<Prefix("T","W",1), w1, w2, w3>>,
       <<Prefix("T","W",2), w2, w3, w4>>,
       <<Prefix("T","W",3), w3, w4, w5>>,
       <<Prefix("T","W",4), w4, w5, w6>>,
       <<Prefix("U","B",1), b1>>,
       <<Prefix("U","B",2), b2>>,
       <<Prefix("U","B",3), b3>>,
       <<Prefix("U","B",4), b4>>,
       <<Prefix("U","B",5), b5>>,
       <<Prefix("U","B",6), b6>>,
       <<Prefix("B","B",1), b2, b3>>,
       <<Prefix("B","B",2), b3, b4>>,
       <<Prefix("B","B",3), b4, b5>>,
       <<Prefix("T","B",1), b1, b2, b3>>,
       <<Prefix("T","B",2), b2, b3, b4>>,
       <<Prefix("T","B",3), b3, b4, b5>>,
       <<Prefix("T","B",4), b4, b5, b6>>,
       <<Prefix("U","Q",1), p1, b1>>,
       <<Prefix("U","Q",2), p2, b2>>,
       <<Prefix("U","Q",3), p3, b3>>,
       <<Prefix("B","Q",1), p2, b2, b3>>,
       <<Prefix("B","Q",2), p2, b3, b4>>,
       <<Prefix("B","Q",3), p3, b2, b3>>,
       <<Prefix("B","Q",4), p3, b3, b4>>,
       <<Prefix("T","Q",1), p2, b1, b2, b3>>,
       <<Prefix("T","Q",2), p2, b2, b3, b4>>,
       <<Prefix("T","Q",3), p3, b1, b2, b3>>,
       <<Prefix("T","Q",4), p3, b2, b3, b4>> >>

\* model.get(k).unwrap_or(&0)
get_or_zero(m, k) == IF k \in DOMAIN m THEN m[k] ELSE 0

\* a + b leaves the range of i32 (a and b are i32).
add_overflows(a, b) ==
    \/ (a > 0 /\ b > 0 /\ a > I32_MAX - b)
    \/ (a < 0 /\ b < 0 /\ a < I32_MIN - b)

\* a + b reduced to the i32 with the same low 32 bits (a and b are i32); no
\* intermediate value leaves the range of i32.
wrapping_add(a, b) ==
    IF a > 0 /\ b > 0 /\ a > I32_MAX - b THEN (a + I32_MIN) + (b + I32_MIN)
    ELSE IF a < 0 /\ b < 0 /\ a < I32_MIN - b THEN (a - I32_MIN) + (b - I32_MIN)
    ELSE a + b

\* One `score += model.get(key(buf, params)).unwrap_or(&0)` line.
\* acc.score is the i32 held (wrapped where an addition overflowed), acc.buf
\* the working buffer, acc.overflow whether an addition has overflowed, and
\* acc.keys the history of the keys looked up so far.
add_feature(m, acc, params) ==
    LET k == key(acc.buf, params)
        x == get_or_zero(m, k)
    IN  [score    |-> wrapping_add(acc.score, x),
         buf      |-> k,
         overflow |-> add_overflows(acc.score, x),
         keys     |-> Append(acc.keys, k)]

\* The lines from the n-th on.  With overflow checks the first overflowing
\* addition panics and the lines after it do not run.
RECURSIVE accumulate(_, _, _, _, _)
accumulate(m, acc, params, n, checks) ==
    IF n > Len(params) \/ (acc.overflow /\ checks) THEN acc
    ELSE LET next == add_feature(m, acc, params[n])
         IN  accumulate(m, [next EXCEPT !.overflow = acc.overflow \/ next.overflow],
                        params, n + 1, checks)

\* The result is the accumulator at the return (or at the panic); `checks`
\* is the build's overflow-check setting, which decides what an overflowing
\* `score +=` does.
get_feature(m, buf, w1, w2, w3, w4, w5, w6, b1, b2, b3, b4, b5, b6, p1, p2, p3, checks) ==
    LET params == feature_params(w1, w2, w3, w4, w5, w6,
                                 b1, b2, b3, b4, b5, b6, p1, p2, p3)
    IN  accumulate(m, [score |-> 0, buf |-> buf, overflow |-> FALSE, keys |-> <<>>],
                   params, 1, checks)

----------------------------------------------------------------------------
(* parse_with_threshold                                                    *)

TagU == <<Ascii["U"]>>
TagB == <<Ascii["B"]>>
TagO == <<Ascii["O"]>>

\* The locals before the function body has run.  Two history fields are
\* kept beside them: scores, the value of `score` at each boundary scored so
\* far (scores[k] is boundary k), and keys, the keys get_feature looked up
\* at the boundary scored last.
Blank ==
    [pc |-> "start", i |-> 0, out |-> <<>>, buf |-> <<>>,
     p1 |-> <<>>, p2 |-> <<>>, p3 |-> <<>>,
     w1 |-> <<>>, w2 |-> <<>>, w3 |-> <<>>, w4 |-> <<>>, w5 |-> <<>>, w6 |-> <<>>,
     b1 |-> <<>>, b2 |-> <<>>, b3 |-> <<>>, b4 |-> <<>>, b5 |-> <<>>, b6 |-> <<>>,
     wb |-> <<>>, score |-> 0, scores |-> <<>>, keys |-> <<>>]

enter_empty_list(chars) ==
    IF Len(chars) = 0
    THEN [Blank EXCEPT !.pc = "done", !.out = <<>>]
    ELSE IF Len(chars) = 1
    THEN [Blank EXCEPT !.pc = "done", !.out = <<chars>>]
    ELSE [Blank EXCEPT !.pc = "loop", !.i = 1, !.buf = <<chars[1]>>,
             !.p1 = TagU, !.p2 = TagU, !.p3 = TagU,
             !.w1 = <<>>, !.b1 = INVALID_FEATURE,
             !.w2 = <<>>, !.b2 = INVALID_FEATURE,
             !.w3 = get_unicode_block_and_feature(chars, 0)[1],
             !.b3 = get_unicode_block_and_feature(chars, 0)[2],
             !.w4 = get_unicode_block_and_feature(chars, 1)[1],
             !.b4 = get_unicode_block_and_feature(chars, 1)[2],
             !.w5 = get_unicode_block_and_feature(chars, 2)[1],
             !.b5 = get_unicode_block_and_feature(chars, 2)[2]]

\* Lines 85-104: the early return, or the locals as the loop is entered.
enter(chars) ==
    IF Len(chars) <= 1
    THEN [Blank EXCEPT !.pc = "done", !.out = <<chars>>]
    ELSE [Blank EXCEPT !.pc = "loop", !.i = 1, !.buf = <<chars[1]>>,
             !.p1 = TagU, !.p2 = TagU, !.p3 = TagU,
             !.w1 = <<>>, !.b1 = INVALID_FEATURE,
             !.w2 = <<>>, !.b2 = INVALID_FEATURE,
             !.w3 = get_unicode_block_and_feature(chars, 0)[1],
             !.b3 = get_unicode_block_and_feature(chars, 0)[2],
             !.w4 = get_unicode_block_and_feature(chars, 1)[1],
             !.b4 = get_unicode_block_and_feature(chars, 1)[2],
             !.w5 = get_unicode_block_and_feature(chars, 2)[1],
             !.b5 = get_unicode_block_and_feature(chars, 2)[2]]

\* Lines 107-111: w6, b6 and the score of boundary l.i.  An overflowing
\* `score +=` panics when the build checks overflow and wraps otherwise.
score_boundary(l, m, chars, checks) ==
    LET wb6 == get_unicode_block_and_feature(chars, l.i + 2)
        r   == get_feature(m, l.wb, l.w1, l.w2, l.w3, l.w4, l.w5, wb6[1],
                           l.b1, l.b2, l.b3, l.b4, l.b5, wb6[2],
                           l.p1, l.p2, l.p3, checks)
    IN  IF r.overflow /\ checks
        THEN [l EXCEPT !.pc = "panic", !.w6 = wb6[1], !.b6 = wb6[2],
                       !.wb = r.buf, !.keys = r.keys]
        ELSE [l EXCEPT !.pc = "scored", !.w6 = wb6[1], !.b6 = wb6[2],
                       !.wb = r.buf, !.score = r.score,
                       !.scores = Append(l.scores, r.score), !.keys = r.keys]

split_or_merge_zero_cutoff(l, t) ==
    IF l.score > 0
    THEN [l EXCEPT !.out = Append(l.out, l.buf), !.buf = l.w4]
    ELSE [l EXCEPT !.buf = l.buf \o l.w4]

split_or_merge_ge(l, t) ==
    IF l.score >= t
    THEN [l EXCEPT !.out = Append(l.out, l.buf), !.buf = l.w4]
    ELSE [l EXCEPT !.buf = l.buf \o l.w4]

\* Lines 113-118
split_or_merge(l, t) ==
    IF l.score > t
    THEN [l EXCEPT !.out = Append(l.out, l.buf), !.buf = l.w4]
    ELSE [l EXCEPT !.buf = l.buf \o l.w4]

push_tag(l, tag) == [l EXCEPT !.p1 = l.p2, !.p2 = l.p3, !.p3 = tag]

rotate_tags_lost_p2(l) ==
    [l EXCEPT !.p1 = l.p3, !.p2 = l.p3,
              !.p3 = IF l.score > 0 THEN TagB ELSE TagO]

\* Lines 120-127
rotate_tags(l) == push_tag(l, IF l.score > 0 THEN TagB ELSE TagO)

slide_window_skip(l) ==
    [l EXCEPT !.w1 = l.w2, !.w2 = l.w3, !.w3 = l.w4, !.w4 = l.w6, !.w5 = l.w6,
              !.b1 = l.b2, !.b2 = l.b3, !.b3 = l.b4, !.b4 = l.b5, !.b5 = l.b6]

\* Lines 129-139
slide_window(l) ==
    [l EXCEPT !.w1 = l.w2, !.w2 = l.w3, !.w3 = l.w4, !.w4 = l.w5, !.w5 = l.w6,
              !.b1 = l.b2, !.b2 = l.b3, !.b3 = l.b4, !.b4 = l.b5, !.b5 = l.b6]

decide_tag_by_threshold(l, t) ==
    [slide_window(push_tag(split_or_merge(l, t),
                           IF l.score > t THEN TagB ELSE TagO))
        EXCEPT !.pc = "loop", !.i = l.i + 1]

\* Lines 113-140: the rest of the loop body after the score, and the
\* loop's increment.
decide(l, t) ==
    [slide_window(rotate_tags(split_or_merge(l, t)))
        EXCEPT !.pc = "loop", !.i = l.i + 1]

flush_dropped(l) == [l EXCEPT !.pc = "done"]

\* Lines 142-146
flush(l) ==
    [l EXCEPT !.pc = "done",
              !.out = IF l.buf # <<>> THEN Append(l.out, l.buf) ELSE l.out]

\* The whole call, from the locals l to its end ("done" or "panic").
RECURSIVE run(_, _, _, _, _)
run(l, m, chars, t, checks) ==
    CASE l.pc = "start"  -> run(enter(chars), m, chars, t, checks)
      [] l.pc = "loop"   -> IF l.i < Len(chars)
                            THEN run(score_boundary(l, m, chars, checks),
                                     m, chars, t, checks)
                            ELSE run(flush(l), m, chars, t, checks)
      [] l.pc = "scored" -> run(decide(l, t), m, chars, t, checks)
      [] OTHER           -> l

parse_with_threshold(m, chars, t, checks) == run(Blank, m, chars, t, checks)

----------------------------------------------------------------------------
(* Inputs                                                                  *)

\* 'a' (inside a block) and U+0080 (an entry of the block table).
Alphabet == {97, 128}

Texts == UNION {[1..n -> Alphabet] : n \in 0..MaxLen}

Thresholds == {-1, 0, DEFAULT_THRESHOLD, I32_MAX}

EmptyModel == [k \in {} |-> 0]

\* Weights on the decision history only.
FeedbackModel ==
    (Prefix("U","P",3) \o TagU :> 5) @@
    (Prefix("B","P",2) \o TagU \o TagO :> 2000) @@
    (Prefix("B","P",2) \o TagO \o TagB :> 2000) @@
    (Prefix("U","P",1) \o TagB :> -3000)

\* Weights on characters and blocks, with a score equal to the default
\* threshold before an 'a' that is not the last character.
LexicalModel ==
    (Prefix("U","W",4) \o <<97>> :> 1000) @@
    (Prefix("U","W",3) \o <<128>> :> 1) @@
    (Prefix("U","W",5) :> -2000) @@
    (Prefix("T","W",1) \o <<97>> :> 3) @@
    (Prefix("U","B",6) \o INVALID_FEATURE :> 7) @@
    (Prefix("B","B",2) \o <<48, 48, 50>> \o <<48, 48, 50>> :> 400) @@
    (Prefix("U","Q",3) \o TagB \o <<48, 48, 49>> :> -1001)

\* Weights whose sum leaves the i32 range: above it before every 'a', below
\* it between two U+0080.
HeavyModel ==
    (Prefix("U","W",4) \o <<97>> :> I32_MAX) @@
    (Prefix("U","B",4) \o <<48, 48, 49>> :> 1) @@
    (Prefix("B","W",2) \o <<128, 128>> :> I32_MIN) @@
    (Prefix("U","B",4) \o <<48, 48, 50>> :> -1)

Models == {EmptyModel, FeedbackModel, LexicalModel, HeavyModel}

----------------------------------------------------------------------------
(* The state machine                                                       *)

Init ==
    /\ model \in Models
    /\ input \in Texts
    /\ threshold \in Thresholds
    /\ overflow_checks \in BOOLEAN
    /\ st = Blank

Enter ==
    /\ st.pc = "start"
    /\ st' = enter(input)
    /\ UNCHANGED <<model, input, threshold, overflow_checks>>

Score ==
    /\ st.pc = "loop"
    /\ st.i < Len(input)
    /\ st' = score_boundary(st, model, input, overflow_checks)
    /\ UNCHANGED <<model, input, threshold, overflow_checks>>

Decide ==
    /\ st.pc = "scored"
    /\ st' = decide(st, threshold)
    /\ UNCHANGED <<model, input, threshold, overflow_checks>>

Flush ==
    /\ st.pc = "loop"
    /\ st.i >= Len(input)
    /\ st' = flush(st)
    /\ UNCHANGED <<model, input, threshold, overflow_checks>>

Next == Enter \/ Score \/ Decide \/ Flush

Spec == Init /\ [][Next]_vars

----------------------------------------------------------------------------
(* Definitions used to state the properties                                *)

\* The concatenation of a sequence of strings.
RECURSIVE Flatten(_)
Flatten(ss) == IF ss = <<>> THEN <<>> ELSE Head(ss) \o Flatten(Tail(ss))

\* The total length of the first j strings of ss.
RECURSIVE LenOfFirst(_, _)
LenOfFirst(ss, j) == IF j = 0 THEN 0 ELSE LenOfFirst(ss, j - 1) + Len(ss[j])

\* The 0-based text positions at which the chunks of ss start.
ChunkStarts(ss) == {LenOfFirst(ss, j) : j \in 0..(Len(ss) - 1)}

\* The 0-based boundaries whose recorded score exceeds t.
SplitPoints(scores, t) == {k \in 1..Len(scores) : scores[k] > t}

\* The tag of boundary k by the zero test; unknown when there is no such
\* boundary.
TagOf(scores, k) ==
    IF k < 1 THEN TagU ELSE IF scores[k] > 0 THEN TagB ELSE TagO

StrictlyAscending(table) ==
    \A j \in 1..(Len(table) - 1) : table[j] < table[j + 1]

\* The number of table entries that are <= c.
EntriesUpTo(table, c) == Cardinality({j \in 1..Len(table) : table[j] <= c})

\* n < 1000 as three decimal digits.
ThreeDigits(n) == <<48 + (n \div 100), 48 + ((n \div 10) % 10), 48 + (n % 10)>>

\* The (character, block) pair the window must hold for text position pos
\* (0-based, possibly outside the text).
ExpectedAt(chars, pos) ==
    IF pos >= 0 /\ pos < Len(chars)
    THEN <<(<<chars[pos + 1]>>), ThreeDigits(EntriesUpTo(UNICODE_BLOCKS, chars[pos + 1]))>>
    ELSE <<(<<>>), INVALID_FEATURE>>

\* The window of the locals l as two sequences.
WindowW(l) == <<l.w1, l.w2, l.w3, l.w4, l.w5, l.w6>>
WindowB(l) == <<l.b1, l.b2, l.b3, l.b4, l.b5, l.b6>>

\* The parameter lists of the 42 keys for the window and tags held in l.
ParamsOf(l) ==
    feature_params(l.w1, l.w2, l.w3, l.w4, l.w5, l.w6,
                   l.b1, l.b2, l.b3, l.b4, l.b5, l.b6, l.p1, l.p2, l.p3)

\* An exact integer as hi * 2^31 + lo with 0 <= lo < 2^31, so that sums of
\* i32 weights are computed without leaving the range of TLC's integers.
ExactOfI32(x) ==
    IF x >= 0 THEN [hi |-> 0, lo |-> x] ELSE [hi |-> -1, lo |-> x - I32_MIN]

ExactAdd(a, x) ==
    LET e == ExactOfI32(x) IN
    IF a.lo > I32_MAX - e.lo
    THEN [hi |-> a.hi + e.hi + 1, lo |-> (a.lo + I32_MIN) + e.lo]
    ELSE [hi |-> a.hi + e.hi, lo |-> a.lo + e.lo]

\* The exact sum of the weights of the first n keys (0 for an absent key).
RECURSIVE ExactSum(_, _, _)
ExactSum(m, params, n) ==
    IF n = 0 THEN [hi |-> 0, lo |-> 0]
    ELSE LET k == Flatten(params[n])
         IN  ExactAdd(ExactSum(m, params, n - 1), IF k \in DOMAIN m THEN m[k] ELSE 0)

\* For each of the 42 keys: its family tag, the kinds of its values (p: a
\* decision tag, w: a character, b: a block code) and, for a family of
\* characters, the side on which its positions can lie outside the text.
FamilyShapes ==
    <<[tag |-> <<"U", "P", 1>>, kinds |-> <<"p">>, pad |-> "none"],
       [tag |-> <<"U", "P", 2>>, kinds |-> <<"p">>, pad |-> "none"],
       [tag |-> <<"U", "P", 3>>, kinds |-> <<"p">>, pad |-> "none"],
       [tag |-> <<"B", "P", 1>>, kinds |-> <<"p", "p">>, pad |-> "none"],
       [tag |-> <<"B", "P", 2>>, kinds |-> <<"p", "p">>, pad |-> "none"],
       [tag |-> <<"U", "W", 1>>, kinds |-> <<"w">>, pad |-> "left"],
       [tag |-> <<"U", "W", 2>>, kinds |-> <<"w">>, pad |-> "left"],
       [tag |-> <<"U", "W", 3>>, kinds |-> <<"w">>, pad |-> "left"],
       [tag |-> <<"U", "W", 4>>, kinds |-> <<"w">>, pad |-> "left"],
       [tag |-> <<"U", "W", 5>>, kinds |-> <<"w">>, pad |-> "left"],
       [tag |-> <<"U", "W", 6>>, kinds |-> <<"w">>, pad |-> "left"],
       [tag |-> <<"B", "W", 1>>, kinds |-> <<"w", "w">>, pad |-> "left"],
       [tag |-> <<"B", "W", 2>>, kinds |-> <<"w", "w">>, pad |-> "none"],
       [tag |-> <<"B", "W", 3>>, kinds |-> <<"w", "w">>, pad |-> "right"],
       [tag |-> <<"T", "W", 1>>, kinds |-> <<"w", "w", "w">>, pad |-> "left"],
       [tag |-> <<"T", "W", 2>>, kinds |-> <<"w", "w", "w">>, pad |-> "left"],
       [tag |-> <<"T", "W", 3>>, kinds |-> <<"w", "w", "w">>, pad |-> "right"],
       [tag |-> <<"T", "W", 4>>, kinds |-> <<"w", "w", "w">>, pad |-> "right"],
       [tag |-> <<"U", "B", 1>>, kinds |-> <<"b">>, pad |-> "none"],
       [tag |-> <<"U", "B", 2>>, kinds |-> <<"b">>, pad |-> "none"],
       [tag |-> <<"U", "B", 3>>, kinds |-> <<"b">>, pad |-> "none"],
       [tag |-> <<"U", "B", 4>>, kinds |-> <<"b">>, pad |-> "none"],
       [tag |-> <<"U", "B", 5>>, kinds |-> <<"b">>, pad |-> "none"],
       [tag |-> <<"U", "B", 6>>, kinds |-> <<"b">>, pad |-> "none"],
       [tag |-> <<"B", "B", 1>>, kinds |-> <<"b", "b">>, pad |-> "none"],
       [tag |-> <<"B", "B", 2>>, kinds |-> <<"b", "b">>, pad |-> "none"],
       [tag |-> <<"B", "B", 3>>, kinds |-> <<"b", "b">>, pad |-> "none"],
       [tag |-> <<"T", "B", 1>>, kinds |-> <<"b", "b", "b">>, pad |-> "none"],
       [tag |-> <<"T", "B", 2>>, kinds |-> <<"b", "b", "b">>, pad |-> "none"],
       [tag |-> <<"T", "B", 3>>, kinds |-> <<"b", "b", "b">>, pad |-> "none"],
       [tag |-> <<"T", "B", 4>>, kinds |-> <<"b", "b", "b">>, pad |-> "none"],
       [tag |-> <<"U", "Q", 1>>, kinds |-> <<"p", "b">>, pad |-> "none"],
       [tag |-> <<"U", "Q", 2>>, kinds |-> <<"p", "b">>, pad |-> "none"],
       [tag |-> <<"U", "Q", 3>>, kinds |-> <<"p", "b">>, pad |-> "none"],
       [tag |-> <<"B", "Q", 1>>, kinds |-> <<"p", "b", "b">>, pad |-> "none"],
       [tag |-> <<"B", "Q", 2>>, kinds |-> <<"p", "b", "b">>, pad |-> "none"],
       [tag |-> <<"B", "Q", 3>>, kinds |-> <<"p", "b", "b">>, pad |-> "none"],
       [tag |-> <<"B", "Q", 4>>, kinds |-> <<"p", "b", "b">>, pad |-> "none"],
       [tag |-> <<"T", "Q", 1>>, kinds |-> <<"p", "b", "b", "b">>, pad |-> "none"],
       [tag |-> <<"T", "Q", 2>>, kinds |-> <<"p", "b", "b", "b">>, pad |-> "none"],
       [tag |-> <<"T", "Q", 3>>, kinds |-> <<"p", "b", "b", "b">>, pad |-> "none"],
       [tag |-> <<"T", "Q", 4>>, kinds |-> <<"p", "b", "b", "b">>, pad |-> "none"] >>

Undecodable == << <<-1>> >>

\* The values of a key body made of characters only: each value is one
\* character or empty, the empty ones all on the side `pad`.
DecodeChars(body, m, pad) ==
    LET r == Len(body) IN
    IF r > m \/ (pad = "none" /\ r < m) THEN Undecodable
    ELSE [j \in 1..m |->
            IF pad = "right"
            THEN (IF j <= r THEN <<body[j]>> ELSE <<>>)
            ELSE (IF j <= m - r THEN <<>> ELSE <<body[j - (m - r)]>>)]

\* The values of a key body made of tags and block codes, read from the
\* left: a tag is one character, a block code is the sentinel glyph or
\* three digits.
RECURSIVE DecodeFields(_, _, _, _)
DecodeFields(body, kinds, j, pos) ==
    IF j > Len(kinds)
    THEN (IF pos = Len(body) + 1 THEN <<>> ELSE Undecodable)
    ELSE LET width == IF kinds[j] = "p" THEN 1
                      ELSE IF pos <= Len(body) /\ <<body[pos]>> = INVALID_FEATURE THEN 1
                      ELSE 3
         IN  IF pos + width - 1 > Len(body) THEN Undecodable
             ELSE LET rest == DecodeFields(body, kinds, j + 1, pos + width)
                  IN  IF rest = Undecodable THEN Undecodable
                      ELSE <<SubSeq(body, pos, pos + width - 1)>> \o rest

\* The values a key of the given shape was built from, read back from the
\* key string alone.
Decode(k, shape) ==
    IF Len(k) < 4 \/ SubSeq(k, 1, 4) # Prefix(shape.tag[1], shape.tag[2], shape.tag[3])
    THEN Undecodable
    ELSE LET body == SubSeq(k, 5, Len(k)) IN
         IF shape.kinds[1] = "w"
         THEN DecodeChars(body, Len(shape.kinds), shape.pad)
         ELSE DecodeFields(body, shape.kinds, 1, 1)

----------------------------------------------------------------------------
(* Properties                                                              *)

\* C1 (round trip): whenever parse_with_threshold returns, the chunks it
\* returns, concatenated in order, are exactly the input text.
C1_RoundTrip ==
    st.pc = "done" => Flatten(st.out) = input

C1_Witness ==
    /\ st.pc = "done"
    /\ Len(input) >= 3
    /\ Len(st.out) >= 2
    /\ Flatten(st.out) = input

\* C2 (threshold monotonicity): when the call returns with threshold t1,
\* the call on the same text and model with any larger threshold t2 returns
\* too, with at most as many chunks.
C2_ThresholdMonotone ==
    st.pc = "done" =>
        \A t2 \in Thresholds :
            threshold < t2 =>
                LET r == parse_with_threshold(model, input, t2, overflow_checks)
                IN  r.pc = "done" /\ Len(r.out) <= Len(st.out)

C2_Witness ==
    /\ st.pc = "done"
    /\ model = FeedbackModel
    /\ \E t2 \in Thresholds :
          /\ threshold < t2
          /\ Len(parse_with_threshold(model, input, t2, overflow_checks).out) > 1
          /\ Len(parse_with_threshold(model, input, t2, overflow_checks).out)
                < Len(st.out)

\* C3 (trivial inputs): a text of at most one character never enters the
\* loop; the call returns exactly one chunk equal to the text (the empty
\* string for the empty text), no boundary is scored and no key is built
\* or looked up.
C3_TrivialInputs ==
    Len(input) <= 1 =>
        /\ st.pc \in {"start", "done"}
        /\ st.pc = "done" =>
              /\ st.out = <<input>>
              /\ st.scores = <<>>
              /\ st.keys = <<>>
              /\ st.wb = <<>>

C3_Witness ==
    /\ st.pc = "done"
    /\ input = <<>>
    /\ st.out = << <<>> >>
    /\ model # EmptyModel

\* C4 (very large threshold): when the call returns and the threshold is at
\* least the score of every boundary, the result is the single chunk equal
\* to the whole input.
C4_LargeThresholdOneChunk ==
    (st.pc = "done" /\ \A k \in 1..Len(st.scores) : st.scores[k] <= threshold)
        => st.out = <<input>>

C4_Witness ==
    /\ st.pc = "done"
    /\ threshold = I32_MAX
    /\ Len(input) >= 3
    /\ \E k \in 1..Len(st.scores) : st.scores[k] > DEFAULT_THRESHOLD
    /\ st.out = <<input>>

\* C5 (split rule): when the call returns on a text of n >= 2 characters,
\* every boundary 1..n-1 was scored, the chunks start exactly at position 0
\* and at the boundaries whose score is strictly greater than the
\* threshold, so there are 1 + |{i : score_i > threshold}| of them, none is
\* empty, the first starts with character 0 and the last ends with the last
\* character.
C5_SplitRule ==
    (st.pc = "done" /\ Len(input) >= 2) =>
        /\ Len(st.scores) = Len(input) - 1
        /\ ChunkStarts(st.out) = {0} \cup SplitPoints(st.scores, threshold)
        /\ Len(st.out) = 1 + Cardinality(SplitPoints(st.scores, threshold))
        /\ \A j \in 1..Len(st.out) : st.out[j] # <<>>
        /\ st.out[1][1] = input[1]
        /\ LenOfFirst(st.out, Len(st.out)) = Len(input)
        /\ st.out[Len(st.out)][Len(st.out[Len(st.out)])] = input[Len(input)]

C5_Witness ==
    /\ st.pc = "done"
    /\ Len(st.out) >= 3
    /\ Len(st.out) < Len(input)
    /\ \E k \in 1..Len(st.scores) : st.scores[k] = threshold
    /\ ChunkStarts(st.out) = {0} \cup SplitPoints(st.scores, threshold)

\* C6 (decision history): when boundary i has been scored, p3, p2 and p1
\* are the tags of boundaries i-1, i-2 and i-3: "B" when that boundary's
\* score was > 0, "O" when it was not, "U" when there is no such boundary;
\* the threshold plays no part.
C6_DecisionHistory ==
    st.pc \in {"scored", "panic"} =>
        /\ st.p3 = TagOf(st.scores, st.i - 1)
        /\ st.p2 = TagOf(st.scores, st.i - 2)
        /\ st.p1 = TagOf(st.scores, st.i - 3)

C6_Witness ==
    /\ st.pc = "scored"
    /\ st.i >= 4
    /\ st.p1 = TagB
    /\ st.p2 = TagO
    /\ st.p3 = TagB
    /\ st.scores[st.i - 1] <= threshold

\* C7 (window): when boundary i has been scored, (wk, bk) for k in 1..6 is
\* the character at position i-4+k with its block code when that position
\* is inside the text, and the sentinel pair otherwise; w4 is character i,
\* and once the boundary is decided the chunk buffer ends with it.
C7_Window ==
    /\ st.pc \in {"scored", "panic"} =>
          /\ \A k \in 1..6 :
                <<WindowW(st)[k], WindowB(st)[k]>> = ExpectedAt(input, st.i - 4 + k)
          /\ st.w4 = <<input[st.i + 1]>>
    /\ (st.pc = "loop" /\ st.i > 1) =>
          st.buf # <<>> /\ st.buf[Len(st.buf)] = input[st.i]

C7_Witness ==
    /\ st.pc = "scored"
    /\ st.i = 3
    /\ st.w1 # <<>>
    /\ st.w5 # <<>>
    /\ st.w6 = <<>>
    /\ st.w3 # st.w4

\* C8 (score accumulation): get_feature never fails, and the score it
\* returns is the exact integer sum of the weights of the 42 keys.
C8_ScoreIsExactSum ==
    /\ st.pc # "panic"
    /\ st.pc = "scored" =>
          LET e == ExactSum(model, ParamsOf(st), 42)
          IN  e = ExactOfI32(st.score)

\* C9 (key unambiguity): when boundary i has been scored, each of the 42
\* keys that were looked up, read back from the key string alone, gives
\* exactly the values of the window it was built from; so within a family
\* two windows that differ in a value used give different keys, a sentinel
\* never reads as a value inside the text, and no key holds text of the
\* key built before it.
C9_KeysDecode ==
    st.pc = "scored" =>
        /\ Len(st.keys) = 42
        /\ \A n \in 1..42 :
              Decode(st.keys[n], FamilyShapes[n]) = Tail(ParamsOf(st)[n])
        /\ st.wb = st.keys[42]

C9_Witness ==
    /\ st.pc = "scored"
    /\ st.i = 2
    /\ Len(input) = 3
    /\ st.w1 = <<>>
    /\ st.b6 = INVALID_FEATURE
    /\ st.p3 = TagB
    /\ Len(st.keys) = 42

\* C10 (block classification): for the strictly ascending block table and
\* every index, get_unicode_block_and_feature returns, inside the text, the
\* character with the three-digit code of the number of table entries <= it
\* (index+1 of the entry it equals, else the insertion point), a code that
\* does not decrease with the code point; at an index >= the length it
\* returns the empty character with the invalid-block sentinel.
C10_BlockClassification ==
    StrictlyAscending(UNICODE_BLOCKS) =>
    /\ \A index \in 0..(Len(input) + 2) :
          LET r == get_unicode_block_and_feature(input, index) IN
          IF index >= Len(input)
          THEN r = <<(<<>>), INVALID_FEATURE>>
          ELSE LET c == input[index + 1]
                   pos == block_pos(UNICODE_BLOCKS, c)
               IN  /\ r[1] = <<c>>
                   /\ r[2] = ThreeDigits(pos)
                   /\ Len(r[2]) = 3
                   /\ pos = EntriesUpTo(UNICODE_BLOCKS, c)
                   /\ \A j \in 1..Len(UNICODE_BLOCKS) : UNICODE_BLOCKS[j] = c => pos = j
                   /\ (\A j \in 1..Len(UNICODE_BLOCKS) : UNICODE_BLOCKS[j] # c) =>
                         pos = Cardinality({j \in 1..Len(UNICODE_BLOCKS) : UNICODE_BLOCKS[j] < c})
                   /\ \A other \in 0..(Len(input) - 1) :
                         input[other + 1] <= c =>
                             block_pos(UNICODE_BLOCKS, input[other + 1]) <= pos
    /\ st.pc = "scored" => st.b4 = ThreeDigits(EntriesUpTo(UNICODE_BLOCKS, input[st.i + 1]))

C10_Witness ==
    /\ StrictlyAscending(UNICODE_BLOCKS)
    /\ st.pc = "scored"
    /\ st.w3 = <<97>>
    /\ st.b3 = <<48, 48, 49>>
    /\ st.w4 = <<128>>
    /\ st.b4 = <<48, 48, 50>>
    /\ st.b6 = INVALID_FEATURE

=============================================================================
